---- MODULE Spec2Model ----
(***************************************************************************)
(* Model of tests/test_training.py: the MegDSTestTraining integration      *)
(* tests.  One behaviour is a sequence of test executions (setUp, the test *)
(* body, tearDown).  The training job is an external child process: what   *)
(* it prints and what it leaves in the output directory are inputs.        *)
(***************************************************************************)
EXTENDS Integers, Sequences, FiniteSets, TLC

\* ---------------------------------------------------------------- bounds
MaxGpus == 5
MaxTests == 2
MaxNewEvents == 2

\* ------------------------------------------------------ program constants
dp_size == 1
n_samples == 300
exit_interval == 20
seq_len == 128
lr_decay_samples == 6
prefix_n_samples == 200

\* --------------------------------------------------------- stdout markers
DeepSpeedInfo == "DeepSpeed info"
ConsumedSamples == "consumed samples"
UnableToFindLatest == "Unable to find latest file at <output_dir>/checkpoints/latest"
LoadedCheckpoint == "successfully loaded checkpoint from <output_dir>/checkpoints"
SavedCheckpoint == "successfully saved checkpoint at iteration"

Markers ==
  {DeepSpeedInfo, ConsumedSamples, UnableToFindLatest, LoadedCheckpoint, SavedCheckpoint}

\* ------------------------------------------------------------- scenarios
TestTrainingAll == "test_training_all"
TestTrainingPrefixLmAll == "test_training_prefix_lm_all"

\* test_training_all takes the variation as its parameter; "bogus" stands
\* for any string other than the two literals get_variation_config knows.
Variations == {"base", "cl", "bogus"}

Scenarios ==
  {[test |-> TestTrainingAll, variation |-> v] : v \in Variations}
    \cup {[test |-> TestTrainingPrefixLmAll, variation |-> "none"]}

VARIABLES
  pc,            \* position of the test runner / test body
  scenario,      \* the test method being run and its parameter
  tests_run,     \* number of tests finished
  lock,          \* megatron/fused_kernels/build/lock exists
  lock_at_setup, \* history: the lock file existed when setUp was entered
  ckpt,          \* <output_dir>/checkpoints/latest: NO_CHECKPOINT / HAS_CHECKPOINT
  events,        \* number of files matching <output_dir>/tensorboard/events*
  gpu_count,     \* what get_gpu_count() returned
  dims,          \* (pp_size, tp_size, dp_size)
  num_gpus,      \* the worker count
  args,          \* the numeric training flags of the argument list
  ds_config,     \* the --deepspeed_config file of ds_args
  cmd,           \* <<>> until built, then <<the command vector>>
  out,           \* cs.out of the latest capture, as the set of markers it contains
  runs,          \* history: one record per execute_subprocess_async call of this test
  ai,            \* index of the next assertIn of the current run
  n_asserts      \* history: assertions evaluated by this test

vars ==
  <<pc, scenario, tests_run, lock, lock_at_setup, ckpt, events, gpu_count, dims,
    num_gpus, args, ds_config, cmd, out, runs, ai, n_asserts>>

NO_CHECKPOINT == "NO_CHECKPOINT"
HAS_CHECKPOINT == "HAS_CHECKPOINT"

Terminal == {"passed", "failed_assert", "failed_child", "error_config"}

\* ------------------------------------------------------ get_launcher
get_launcher(n) == [program |-> "deepspeed", num_nodes |-> 1, num_gpus |-> n]

\* ------------------------------------------------------ get_3d_dimensions
\* Mutant: the first threshold compared with > instead of >=.
get_3d_dimensions_gt(n) ==
  IF n > 4 THEN [pp_size |-> 2, tp_size |-> 2, dp_size |-> dp_size]
  ELSE IF n >= 2 THEN [pp_size |-> 2, tp_size |-> 1, dp_size |-> dp_size]
  ELSE [pp_size |-> 1, tp_size |-> 1, dp_size |-> dp_size]

get_3d_dimensions(n) ==
  IF n >= 4 THEN [pp_size |-> 2, tp_size |-> 2, dp_size |-> dp_size]
  ELSE IF n >= 2 THEN [pp_size |-> 2, tp_size |-> 1, dp_size |-> dp_size]
  ELSE [pp_size |-> 1, tp_size |-> 1, dp_size |-> dp_size]

\* Mutant: the degrees added instead of multiplied.
WorkerCount_sum(d) == d.pp_size + d.tp_size + d.dp_size

WorkerCount(d) == d.pp_size * d.tp_size * d.dp_size

\* ------------------------------------------------------ argument lists
CommonArgs(d) ==
  [f \in {"--tensor-model-parallel-size", "--pipeline-model-parallel-size",
          "--num-layers", "--hidden-size", "--num-attention-heads", "--seq-length",
          "--max-position-embeddings", "--micro-batch-size", "--global-batch-size",
          "--lr-warmup-samples", "--log-interval", "--save-interval",
          "--eval-interval", "--eval-iters", "--exit-interval",
          "--tensorboard-queue-size"} |->
     CASE f = "--tensor-model-parallel-size" -> d.tp_size
       [] f = "--pipeline-model-parallel-size" -> d.pp_size
       [] f = "--num-layers" -> 2
       [] f = "--hidden-size" -> 64
       [] f = "--num-attention-heads" -> 2
       [] f = "--seq-length" -> seq_len
       [] f = "--max-position-embeddings" -> 1024
       [] f = "--micro-batch-size" -> 1
       [] f = "--global-batch-size" -> 16
       [] f = "--lr-warmup-samples" -> 5
       [] f = "--log-interval" -> 5
       [] f = "--save-interval" -> 10
       [] f = "--eval-interval" -> 10
       [] f = "--eval-iters" -> 5
       [] f = "--exit-interval" -> exit_interval
       [] f = "--tensorboard-queue-size" -> 5]

BaseArgs(d) ==
  CommonArgs(d) @@ [f \in {"--train-samples", "--lr-decay-samples"} |->
                      IF f = "--train-samples" THEN n_samples ELSE 6]

\* Mutant: --train-tokens computed from the doubled sample count.
ClArgs_doubled(d) ==
  LET lr_decay_tokens == lr_decay_samples * seq_len
      train_tokens == n_samples * 2 * seq_len
  IN CommonArgs(d) @@
       [f \in {"--train-samples", "--train-tokens", "--lr-decay-tokens"} |->
          CASE f = "--train-samples" -> n_samples * 2
            [] f = "--train-tokens" -> train_tokens
            [] f = "--lr-decay-tokens" -> lr_decay_tokens]

ClArgs(d) ==
  LET lr_decay_tokens == lr_decay_samples * seq_len
      train_tokens == n_samples * seq_len
  IN CommonArgs(d) @@
       [f \in {"--train-samples", "--train-tokens", "--lr-decay-tokens"} |->
          CASE f = "--train-samples" -> n_samples * 2
            [] f = "--train-tokens" -> train_tokens
            [] f = "--lr-decay-tokens" -> lr_decay_tokens]

PrefixLmArgs(d) ==
  CommonArgs(d) @@ [f \in {"--train-samples"} |-> prefix_n_samples]

NoArgs == [f \in {} |-> 0]

\* Mutant: the final else branch missing, every name taken as known.
KnownVariation_any(variation) == variation = variation

\* ------------------------------------------------------ get_variation_config
KnownVariation(variation) == variation \in {"base", "cl"}

get_variation_config(variation, n) ==
  LET d == get_3d_dimensions(n) IN
  IF ~KnownVariation(variation)
  THEN [raised |-> TRUE, args |-> NoArgs, ds_config |-> "none", num_gpus |-> WorkerCount(d)]
  ELSE [raised |-> FALSE,
        args |-> IF variation = "cl" THEN ClArgs(d) ELSE BaseArgs(d),
        ds_config |-> IF variation = "cl" THEN "ds_config_cl.json" ELSE "ds_config.json",
        num_gpus |-> WorkerCount(d)]

\* ------------------------------------------------------ the child process
\* execute_subprocess_async ends normally only when the child exited with
\* status 0; a non-zero exit or a failure to launch raises.
ExitStatuses == {"ok", "nonzero_exit", "launch_failure"}

execute_subprocess_async_raises(rc) == rc # "ok"

\* get_auto_remove_tmp_dir() hands out a new, empty directory.
EmptyDir == [ckpt |-> NO_CHECKPOINT, events |-> 0]

\* ------------------------------------------------------ the test bodies
Script(test) ==
  IF test = TestTrainingAll THEN "pretrain_gpt.py" ELSE "pretrain_prefix_lm.py"

\* cmd = launcher + script + args + ds_args
BuildCommand(n, test, a, ds) ==
  [launcher |-> get_launcher(n), script |-> Script(test), args |-> a, ds_config |-> ds]

\* Mutant: the check of the saved-checkpoint marker missing from the first run.
FirstRunAssertions_no_saved ==
  <<DeepSpeedInfo, ConsumedSamples, UnableToFindLatest>>

\* The assertIn calls after the first and after the second run, in order.
FirstRunAssertions ==
  <<DeepSpeedInfo, ConsumedSamples, UnableToFindLatest, SavedCheckpoint>>

\* Mutant: the check of "consumed samples" missing from the second run.
SecondRunAssertions_no_consumed == <<LoadedCheckpoint, SavedCheckpoint>>

SecondRunAssertions == <<LoadedCheckpoint, ConsumedSamples, SavedCheckpoint>>

RequiredMarkers(run) == IF run = 1 THEN FirstRunAssertions ELSE SecondRunAssertions

\* Mutant: the second count not raised to 2.
ExpectedEventFiles_one(run) == IF run = 1 THEN 1 ELSE 1

\* assertEqual(len(tensorboard_files), 1) after the first run, 2 after the second.
ExpectedEventFiles(run) == IF run = 1 THEN 1 ELSE 2

\* Mutant: a failed assertion is swallowed and the test goes on.
AssertOutcome_swallowed(ok, next) == IF ok THEN next ELSE next

\* A failed assertion raises out of the test; a passed one goes on.
AssertOutcome(ok, next) == IF ok THEN next ELSE "failed_assert"

\* Mutant: the test ends after its first run.
AfterRun_single(run) == IF run = 1 THEN "passed" ELSE "passed"

\* What follows the tensorboard assertion of each run.
AfterRun(run) == IF run = 1 THEN "run2" ELSE "passed"

\* Mutant: the lock file is looked for but not removed.
SetUpLock_kept(exists) == IF exists THEN exists ELSE exists

\* setUp: if os.path.exists(lock): os.unlink(lock)
SetUpLock(exists) == IF exists THEN FALSE ELSE exists

Init ==
  /\ pc = "idle"
  /\ scenario = [test |-> TestTrainingAll, variation |-> "base"]
  /\ tests_run = 0
  /\ lock \in BOOLEAN
  /\ lock_at_setup = FALSE
  /\ ckpt = NO_CHECKPOINT
  /\ events = 0
  /\ gpu_count = 0
  /\ dims = get_3d_dimensions(0)
  /\ num_gpus = 0
  /\ args = NoArgs
  /\ ds_config = "none"
  /\ cmd = <<>>
  /\ out = {}
  /\ runs = <<>>
  /\ ai = 1
  /\ n_asserts = 0

\* The runner picks the next test, builds the test case and calls setUp.
SetUp ==
  /\ pc = "idle"
  /\ tests_run < MaxTests
  /\ scenario' \in Scenarios
  /\ lock_at_setup' = lock
  /\ lock' = SetUpLock(lock)
  /\ pc' = "tmpdir"
  /\ UNCHANGED <<tests_run, ckpt, events, gpu_count, dims, num_gpus, args, ds_config,
                 cmd, out, runs, ai, n_asserts>>

\* output_dir = self.get_auto_remove_tmp_dir()
GetAutoRemoveTmpDir ==
  /\ pc = "tmpdir"
  /\ ckpt' = EmptyDir.ckpt
  /\ events' = EmptyDir.events
  /\ pc' = IF scenario.test = TestTrainingAll THEN "config" ELSE "config_prefix"
  /\ UNCHANGED <<scenario, tests_run, lock, lock_at_setup, gpu_count, dims, num_gpus,
                 args, ds_config, cmd, out, runs, ai, n_asserts>>

\* args, ds_args, num_gpus = self.get_variation_config(variation, output_dir)
GetVariationConfig ==
  /\ pc = "config"
  /\ \E n \in 0..MaxGpus :
       LET r == get_variation_config(scenario.variation, n) IN
       /\ gpu_count' = n
       /\ dims' = get_3d_dimensions(n)
       /\ IF r.raised
          THEN /\ pc' = "error_config"
               /\ UNCHANGED <<num_gpus, args, ds_config>>
          ELSE /\ pc' = "build"
               /\ num_gpus' = r.num_gpus
               /\ args' = r.args
               /\ ds_config' = r.ds_config
  /\ UNCHANGED <<scenario, tests_run, lock, lock_at_setup, ckpt, events, cmd, out,
                 runs, ai, n_asserts>>

\* test_training_prefix_lm_all builds its configuration inline.
PrefixLmConfig ==
  /\ pc = "config_prefix"
  /\ \E n \in 0..MaxGpus :
       LET d == get_3d_dimensions(n) IN
       /\ gpu_count' = n
       /\ dims' = d
       /\ num_gpus' = WorkerCount(d)
       /\ args' = PrefixLmArgs(d)
       /\ ds_config' = "ds_config.json"
  /\ pc' = "build"
  /\ UNCHANGED <<scenario, tests_run, lock, lock_at_setup, ckpt, events, cmd, out,
                 runs, ai, n_asserts>>

\* script, launcher, cmd = launcher + script + args + ds_args
BuildCmd ==
  /\ pc = "build"
  /\ cmd' = <<BuildCommand(num_gpus, scenario.test, args, ds_config)>>
  /\ pc' = "run1"
  /\ UNCHANGED <<scenario, tests_run, lock, lock_at_setup, ckpt, events, gpu_count,
                 dims, num_gpus, args, ds_config, out, runs, ai, n_asserts>>

\* with CaptureStdout() as cs: execute_subprocess_async(cmd, env=self.get_env())
\* The child's exit status, its output and what it writes are inputs: it may
\* write a checkpoint, it adds event files, and a child that fails may leave
\* the kernel-build lock behind.  It removes nothing.
ExecuteSubprocessAsync(command) ==
  \E rc \in ExitStatuses, o \in SUBSET Markers, k \in 0..MaxNewEvents,
     saves \in BOOLEAN, leaves_lock \in BOOLEAN :
    /\ leaves_lock => rc # "ok"
    /\ ckpt' = IF saves THEN HAS_CHECKPOINT ELSE ckpt
    /\ events' = events + k
    /\ lock' = (lock \/ leaves_lock)
    /\ out' = o
    /\ runs' = Append(runs, [cmd |-> command, rc |-> rc, out |-> o,
                             lock_before |-> lock,
                             dir_before |-> [ckpt |-> ckpt, events |-> events],
                             dir_after |-> [ckpt |-> ckpt', events |-> events']])
    /\ ai' = 1
    /\ pc' = IF execute_subprocess_async_raises(rc) THEN "failed_child" ELSE "assert_in"

\* 1. test training from scratch (no checkpoint)
Run1 ==
  /\ pc = "run1"
  /\ ExecuteSubprocessAsync(cmd[1])
  /\ UNCHANGED <<scenario, tests_run, lock_at_setup, gpu_count, dims, num_gpus, args,
                 ds_config, cmd, n_asserts>>

\* 2. test training from checkpoint: resume
Run2 ==
  /\ pc = "run2"
  /\ ExecuteSubprocessAsync(cmd[1])
  /\ UNCHANGED <<scenario, tests_run, lock_at_setup, gpu_count, dims, num_gpus, args,
                 ds_config, cmd, n_asserts>>

\* self.assertIn(marker, cs.out), one call per step
AssertIn ==
  /\ pc = "assert_in"
  /\ LET req == RequiredMarkers(Len(runs)) IN
       /\ n_asserts' = n_asserts + 1
       /\ pc' = AssertOutcome(req[ai] \in out,
                              IF ai < Len(req) THEN "assert_in" ELSE "assert_tb")
       /\ ai' = IF req[ai] \in out /\ ai < Len(req) THEN ai + 1 ELSE ai
  /\ UNCHANGED <<scenario, tests_run, lock, lock_at_setup, ckpt, events, gpu_count,
                 dims, num_gpus, args, ds_config, cmd, out, runs>>

\* tensorboard_files = glob.glob(...); self.assertEqual(len(tensorboard_files), N)
AssertTensorboard ==
  /\ pc = "assert_tb"
  /\ n_asserts' = n_asserts + 1
  /\ pc' = AssertOutcome(events = ExpectedEventFiles(Len(runs)), AfterRun(Len(runs)))
  /\ UNCHANGED <<scenario, tests_run, lock, lock_at_setup, ckpt, events, gpu_count,
                 dims, num_gpus, args, ds_config, cmd, out, runs, ai>>

\* The test ended (passed, failed or errored): its temporary directory is
\* removed and the test case, with everything the test body held, is dropped.
TearDown ==
  /\ pc \in Terminal
  /\ pc' = "idle"
  /\ tests_run' = tests_run + 1
  /\ ckpt' = NO_CHECKPOINT
  /\ events' = 0
  /\ gpu_count' = 0
  /\ dims' = get_3d_dimensions(0)
  /\ num_gpus' = 0
  /\ args' = NoArgs
  /\ ds_config' = "none"
  /\ cmd' = <<>>
  /\ out' = {}
  /\ runs' = <<>>
  /\ ai' = 1
  /\ n_asserts' = 0
  /\ UNCHANGED <<scenario, lock, lock_at_setup>>

Next ==
  \/ SetUp
  \/ GetAutoRemoveTmpDir
  \/ GetVariationConfig
  \/ PrefixLmConfig
  \/ BuildCmd
  \/ Run1
  \/ AssertIn
  \/ AssertTensorboard
  \/ Run2
  \/ TearDown

Spec == Init /\ [][Next]_vars

\* ======================================================== claims
TpFlag == "--tensor-model-parallel-size"
PpFlag == "--pipeline-model-parallel-size"

\* Positions at which the configuration of the current test has been built.
Configured ==
  pc \in {"build", "run1", "run2", "assert_in", "assert_tb", "passed",
          "failed_assert", "failed_child"}

\* Positions at which get_3d_dimensions has been called by the current test.
DimensionsKnown == Configured \/ pc = "error_config"

\* Every assertIn of the first run has passed.
FirstRunMarkersAccepted ==
  \/ Len(runs) = 1 /\ pc \in {"assert_tb", "run2"}
  \/ Len(runs) = 2

\* Every assertion of the first run, the tensorboard count included, has passed.
FirstRunAccepted ==
  \/ Len(runs) = 1 /\ pc = "run2"
  \/ Len(runs) = 2

Passed == pc = "passed"

\* C1 (state part): a test launches at most two children; the first starts
\* from the empty directory (NO_CHECKPOINT) with the command that was built;
\* the second is launched with the very same command on the directory exactly
\* as the first run left it; the first run is accepted only with the "Unable
\* to find latest file" marker and the test passes only after exactly two
\* runs, the second with the "successfully loaded checkpoint" marker.
C1_State ==
  /\ Len(runs) <= 2
  /\ Len(runs) >= 1 =>
       /\ cmd # <<>>
       /\ runs[1].cmd = cmd[1]
       /\ runs[1].dir_before = [ckpt |-> NO_CHECKPOINT, events |-> 0]
  /\ Len(runs) = 2 =>
       /\ runs[2].cmd = runs[1].cmd
       /\ runs[2].dir_before = runs[1].dir_after
  /\ FirstRunMarkersAccepted => UnableToFindLatest \in runs[1].out
  /\ Passed => Len(runs) = 2 /\ LoadedCheckpoint \in runs[2].out

\* C1: in every scenario the same command is executed twice in sequence on
\* the same output directory, first from NO_CHECKPOINT requiring the "Unable
\* to find latest file" marker, then on what the first run left requiring the
\* "successfully loaded checkpoint" marker; while the test runs the directory
\* never goes from HAS_CHECKPOINT back to NO_CHECKPOINT and the command, once
\* built, is never changed.
C1_TwoRunsSameCommand ==
  /\ []C1_State
  /\ [][(pc \notin Terminal /\ ckpt = HAS_CHECKPOINT) => ckpt' = HAS_CHECKPOINT]_vars
  /\ [][(pc \notin Terminal /\ cmd # <<>>) => cmd' = cmd]_vars

C1_Witness ==
  /\ Passed
  /\ runs[1].dir_before.ckpt = NO_CHECKPOINT
  /\ runs[2].dir_before.ckpt = HAS_CHECKPOINT

\* C2 as stated: for "cl" the list has --train-tokens and --lr-decay-tokens,
\* --train-tokens = (value of --train-samples) * (value of --seq-length) and
\* --lr-decay-tokens = 6 * 128.
C2_Original ==
  (Configured /\ scenario.test = TestTrainingAll /\ scenario.variation = "cl") =>
    /\ {"--train-tokens", "--lr-decay-tokens"} \subseteq DOMAIN args
    /\ args["--train-tokens"] = args["--train-samples"] * args["--seq-length"]
    /\ args["--lr-decay-tokens"] = 6 * 128

\* C2 amended: for "cl" the list has --train-tokens and --lr-decay-tokens;
\* --train-tokens is n_samples (300) * seq-length (128) = 38400 while
\* --train-samples is passed as 2 * n_samples = 600, so --train-tokens is half
\* of train-samples * seq-length; --lr-decay-tokens is 6 * 128 = 768.
C2_ClTokenFlags ==
  (Configured /\ scenario.test = TestTrainingAll /\ scenario.variation = "cl") =>
    /\ {"--train-tokens", "--lr-decay-tokens"} \subseteq DOMAIN args
    /\ args["--seq-length"] = 128
    /\ args["--train-samples"] = 600
    /\ args["--train-tokens"] = 38400
    /\ 2 * args["--train-tokens"] = args["--train-samples"] * args["--seq-length"]
    /\ args["--lr-decay-tokens"] = 768
    /\ args["--lr-decay-tokens"] = 6 * args["--seq-length"]

C2_Witness ==
  /\ pc = "run1"
  /\ scenario.variation = "cl"
  /\ "--train-tokens" \in DOMAIN args

\* C3: a variation other than "base" or "cl" makes get_variation_config raise,
\* and test_training_all then has launched no child, built no command and
\* evaluated no assertion; the two known variations do not raise.
C3_UnknownVariationFailsFirst ==
  /\ (scenario.test = TestTrainingAll /\ scenario.variation \notin {"base", "cl"}
        /\ pc \notin {"idle", "tmpdir", "config"}) =>
       /\ pc = "error_config"
       /\ runs = <<>>
       /\ cmd = <<>>
       /\ n_asserts = 0
  /\ pc = "error_config" =>
       scenario.test = TestTrainingAll /\ scenario.variation \notin {"base", "cl"}

C3_Witness == pc = "error_config" /\ scenario.variation = "bogus" /\ runs = <<>>

\* C4: the worker count is pipeline_size * tensor_size * data_size with
\* data_size = 1; it is the number given to the launcher as --num_gpus, and
\* the two sizes are the ones emitted as --pipeline-model-parallel-size and
\* --tensor-model-parallel-size.
C4_WorkerCountIsProduct ==
  /\ Configured =>
       /\ dims.dp_size = 1
       /\ num_gpus = dims.pp_size * dims.tp_size * dims.dp_size
       /\ args[PpFlag] = dims.pp_size
       /\ args[TpFlag] = dims.tp_size
  /\ cmd # <<>> =>
       /\ cmd[1].launcher.num_gpus = num_gpus
       /\ cmd[1].launcher.num_gpus = cmd[1].args[PpFlag] * cmd[1].args[TpFlag] * 1
  /\ \A i \in 1..Len(runs) :
       runs[i].cmd.launcher.num_gpus
         = runs[i].cmd.args[PpFlag] * runs[i].cmd.args[TpFlag] * 1

C4_Witness ==
  /\ Len(runs) >= 1
  /\ gpu_count = 5
  /\ runs[1].cmd.launcher.num_gpus = 4

\* C5: n >= 4 gives pipeline 2, tensor 2; 2 <= n < 4 gives pipeline 2,
\* tensor 1; n < 2 gives pipeline 1, tensor 1; data-parallel is 1 always; for
\* every n >= 0 exactly one of the three cases applies.
C5_DegreeSelection ==
  DimensionsKnown =>
    /\ gpu_count >= 0
    /\ gpu_count >= 4 => dims.pp_size = 2 /\ dims.tp_size = 2
    /\ (gpu_count >= 2 /\ gpu_count < 4) => dims.pp_size = 2 /\ dims.tp_size = 1
    /\ gpu_count < 2 => dims.pp_size = 1 /\ dims.tp_size = 1
    /\ dims.dp_size = 1
    /\ Cardinality({c \in {"ge4", "ge2lt4", "lt2"} :
                      \/ c = "ge4" /\ gpu_count >= 4
                      \/ c = "ge2lt4" /\ gpu_count >= 2 /\ gpu_count < 4
                      \/ c = "lt2" /\ gpu_count < 2}) = 1

C5_Witness ==
  /\ pc = "build"
  /\ gpu_count = 3
  /\ dims.pp_size = 2
  /\ dims.tp_size = 1

\* C6: the first run is accepted only with exactly 1 event file in
\* <output_dir>/tensorboard, the test passes only with exactly 2 after the
\* second run (one more than before it, none removed by a run), and a run
\* that printed every required marker but left another count fails the test.
C6_EventFileCounts ==
  /\ FirstRunAccepted => runs[1].dir_after.events = 1
  /\ Passed =>
       /\ runs[2].dir_after.events = 2
       /\ runs[2].dir_after.events = runs[2].dir_before.events + 1
  /\ \A i \in 1..Len(runs) : runs[i].dir_after.events >= runs[i].dir_before.events
  /\ (/\ Len(runs) >= 1
      /\ pc \in {"run2", "passed", "failed_assert"}
      /\ events # Len(runs)
      /\ runs[Len(runs)].rc = "ok"
      /\ \A j \in 1..Len(RequiredMarkers(Len(runs))) :
           RequiredMarkers(Len(runs))[j] \in out) => pc = "failed_assert"

C6_Witness == Passed /\ events = 2 /\ runs[1].dir_after.events = 1

\* C7 as stated: the first run is accepted only if its stdout contains
\* "successfully saved checkpoint at iteration" and does not contain the
\* "successfully loaded checkpoint from" marker.
C7_Original ==
  FirstRunAccepted =>
    /\ SavedCheckpoint \in runs[1].out
    /\ LoadedCheckpoint \notin runs[1].out

\* C7 amended: the first run is accepted only if its stdout contains
\* "successfully saved checkpoint at iteration" and the "Unable to find latest
\* file" marker; the presence of a "loaded checkpoint" marker is not tested.
C7_FirstRunSavedAndNotFound ==
  FirstRunAccepted =>
    /\ SavedCheckpoint \in runs[1].out
    /\ UnableToFindLatest \in runs[1].out

C7_Witness ==
  /\ FirstRunAccepted
  /\ runs[1].dir_before.ckpt = NO_CHECKPOINT
  /\ LoadedCheckpoint \in runs[1].out

\* Number of assertions the test makes after its first run.
FirstRunAssertionCount == Len(FirstRunAssertions) + 1

\* C8 (state part): at most two launches per test; a second launch only after
\* the first child ended with status 0 and every first-run assertion passed;
\* no launch follows a failed one, and a failed launch ends the test with no
\* assertion evaluated on its output.
C8_State ==
  /\ Len(runs) <= 2
  /\ Len(runs) = 2 =>
       /\ runs[1].rc = "ok"
       /\ \A j \in 1..Len(FirstRunAssertions) : FirstRunAssertions[j] \in runs[1].out
       /\ runs[1].dir_after.events = 1
       /\ n_asserts >= FirstRunAssertionCount
  /\ \A i \in 1..Len(runs) :
       runs[i].rc # "ok" => (i = Len(runs) /\ pc = "failed_child")
  /\ pc = "failed_child" =>
       /\ runs[Len(runs)].rc # "ok"
       /\ n_asserts = (Len(runs) - 1) * FirstRunAssertionCount

\* C8: a failing child is fatal and never retried: the state part above, and
\* once a launch has failed the test starts no further child and evaluates no
\* further assertion.
C8_ChildFailureIsFatal ==
  /\ []C8_State
  /\ [][pc = "failed_child" =>
          /\ pc' = "idle"
          /\ Len(runs') <= Len(runs)
          /\ n_asserts' <= n_asserts]_vars

C8_Witness ==
  /\ pc = "failed_child"
  /\ Len(runs) = 2
  /\ runs[2].rc = "nonzero_exit"

\* C9 as stated: the test passes only if the second run's stdout contains
\* "DeepSpeed info", "consumed samples", "successfully loaded checkpoint from
\* <ckpt-dir>" and "successfully saved checkpoint at iteration".
C9_Original ==
  Passed =>
    {DeepSpeedInfo, ConsumedSamples, LoadedCheckpoint, SavedCheckpoint}
      \subseteq runs[2].out

\* C9 amended: the first run is required to contain its four markers, and the
\* second run is required to contain "consumed samples", "successfully loaded
\* checkpoint from <ckpt-dir>" and "successfully saved checkpoint at
\* iteration"; "DeepSpeed info" is required of the first run only.
C9_RequiredMarkers ==
  /\ FirstRunMarkersAccepted =>
       {DeepSpeedInfo, ConsumedSamples, UnableToFindLatest, SavedCheckpoint}
         \subseteq runs[1].out
  /\ Passed =>
       {ConsumedSamples, LoadedCheckpoint, SavedCheckpoint} \subseteq runs[2].out

C9_Witness == Passed /\ DeepSpeedInfo \notin runs[2].out

\* C10 (state part): between setUp and the first launch the lock file is
\* absent, and no child was launched with the lock file present.
C10_State ==
  /\ pc \in {"tmpdir", "config", "config_prefix", "build", "run1"} => ~lock
  /\ \A i \in 1..Len(runs) : ~runs[i].lock_before

\* C10: setUp leaves the lock file absent (deleted if present, nothing done
\* if absent) and touches nothing else on the filesystem, so no child is
\* launched while a lock file left by an earlier run is present.
C10_SetUpRemovesLock ==
  /\ []C10_State
  /\ [][pc = "idle" =>
          /\ ~lock'
          /\ (~lock => lock' = lock)
          /\ ckpt' = ckpt
          /\ events' = events]_vars

C10_Witness == lock_at_setup /\ Len(runs) >= 1 /\ tests_run >= 1
====
